---------------------------- MODULE Spec2Model ----------------------------
(***************************************************************************)
(* Model of app.py: the tag extractor (extract_tags_from_docx), the        *)
(* run-aware substitution (replace_placeholders_in_doc) and the generation *)
(* loop of main() that renders one document per dataset row into a ZIP.    *)
(*                                                                         *)
(* Text is a sequence of one-character strings.  The characters with a     *)
(* special role in the code are                                            *)
(*    "{" "}"   braces of a placeholder                                    *)
(*    " "       plain space                                                *)
(*    "NL"      line feed (the separator of cell.text)                     *)
(*    "NBSP"    U+00A0 no-break space                                      *)
(*    "ZWSP"    U+200B zero-width space                                    *)
(*    "FW_A"    U+FF21 fullwidth A, whose NFKC form is "A"                 *)
(* Offsets (start, end, pos) are 0-based as in Python; sequences are       *)
(* 1-based, so the character at offset k is text[k+1].                     *)
(***************************************************************************)
EXTENDS Integers, Sequences, FiniteSets, TLC

(***************************************************************************)
(* Bounds of the model.                                                    *)
(***************************************************************************)
\* the largest number of runs the text of a paragraph is split into
MaxRuns == 3
\* the largest number of rows of the dataset
MaxRows == 2

(***************************************************************************)
(* Characters and strings.                                                 *)
(***************************************************************************)
\* the set of the elements of a sequence
Range(s) == { s[i] : i \in 1..Len(s) }

\* ''.join(parts)
RECURSIVE Join(_)
Join(parts) == IF parts = << >> THEN << >> ELSE Head(parts) \o Join(Tail(parts))

\* "\n".join(parts)
RECURSIVE JoinLines(_)
JoinLines(parts) ==
  IF parts = << >> THEN << >>
  ELSE IF Len(parts) = 1 THEN parts[1]
  ELSE parts[1] \o <<"NL">> \o JoinLines(Tail(parts))

\* what \s matches in a str pattern and what str.strip() strips: Unicode
\* white space, which holds U+00A0 and not U+200B
IsSpace(c) == c \in {" ", "NL", "NBSP"}

\* what . matches (no re.DOTALL): anything but a line feed
IsDot(c) == c # "NL"

\* text.replace(old, new) for a one-character old; new is a string
RECURSIVE Replace1(_, _, _)
Replace1(text, old, new) ==
  IF text = << >> THEN << >>
  ELSE (IF Head(text) = old THEN new ELSE <<Head(text)>>)
       \o Replace1(Tail(text), old, new)

\* unicodedata.normalize("NFKC", text) on the characters of the model:
\* fullwidth A becomes A, the no-break space becomes a space
NFKC(text) ==
  [i \in 1..Len(text) |->
     CASE text[i] = "FW_A" -> "A"
       [] text[i] = "NBSP" -> " "
       [] OTHER -> text[i]]

\* str.strip()
RECURSIVE LStrip(_)
LStrip(text) ==
  IF text # << >> /\ IsSpace(Head(text)) THEN LStrip(Tail(text)) ELSE text

RECURSIVE RStrip(_)
RStrip(text) ==
  IF text # << >> /\ IsSpace(text[Len(text)])
  THEN RStrip(SubSeq(text, 1, Len(text) - 1)) ELSE text

Strip(text) == RStrip(LStrip(text))

\* normalize(text)
normalize(text) ==
  Strip(NFKC(Replace1(Replace1(text, "NBSP", <<" ">>), "ZWSP", << >>)))

\* str.lower() on the letters of the model
Lower(text) ==
  [i \in 1..Len(text) |->
     CASE text[i] = "A" -> "a"
       [] text[i] = "B" -> "b"
       [] text[i] = "N" -> "n"
       [] text[i] = "FW_A" -> "FW_a"
       [] OTHER -> text[i]]

\* the code point of a character, the order sorted() uses
ord(c) ==
  CASE c = "NL" -> 10
    [] c = " " -> 32
    [] c = "!" -> 33
    [] c = "A" -> 65
    [] c = "B" -> 66
    [] c = "N" -> 78
    [] c = "a" -> 97
    [] c = "b" -> 98
    [] c = "e" -> 101
    [] c = "m" -> 109
    [] c = "n" -> 110
    [] c = "p" -> 112
    [] c = "q" -> 113
    [] c = "v" -> 118
    [] c = "w" -> 119
    [] c = "x" -> 120
    [] c = "{" -> 123
    [] c = "}" -> 125
    [] c = "NBSP" -> 160
    [] c = "ZWSP" -> 8203
    [] c = "FW_A" -> 65313
    [] c = "FW_a" -> 65345

\* s < t for two strings, as Python compares them
RECURSIVE StrLess(_, _)
StrLess(s, t) ==
  IF t = << >> THEN FALSE
  ELSE IF s = << >> THEN TRUE
  ELSE IF Head(s) = Head(t) THEN StrLess(Tail(s), Tail(t))
  ELSE ord(Head(s)) < ord(Head(t))

\* sorted(S) for a set of strings
RECURSIVE sorted(_)
sorted(S) ==
  IF S = {} THEN << >>
  ELSE LET m == CHOOSE x \in S : \A y \in S \ {x} : StrLess(x, y)
       IN <<m>> \o sorted(S \ {m})

(***************************************************************************)
(* The two regular expressions.                                            *)
(***************************************************************************)
\* text[a..b-1] (1-based, b exclusive) is white space only
AllSpace(text, a, b) == \A k \in a..(b - 1) : IsSpace(text[k])

\* "{{" (resp. "}}") stands at 1-based position i
OpenAt(text, i)  == i + 1 <= Len(text) /\ text[i] = "{" /\ text[i + 1] = "{"
CloseAt(text, i) == i + 1 <= Len(text) /\ text[i] = "}" /\ text[i + 1] = "}"

\* the 1-based positions a where the tag may stand in a match of
\* \{\{\s*TAG\s*\}\} that begins at i
TagStarts(text, tag, i) ==
  { a \in (i + 2)..(Len(text) + 1) :
      /\ AllSpace(text, i + 2, a)
      /\ a + Len(tag) - 1 <= Len(text)
      /\ SubSeq(text, a, a + Len(tag) - 1) = tag
      /\ \E b \in (a + Len(tag))..Len(text) :
            AllSpace(text, a + Len(tag), b) /\ CloseAt(text, b) }

\* the match of \{\{\s*TAG\s*\}\} that begins at 1-based position i, as the
\* Python offsets [start, end); the first \s* is greedy.  None is << >>.
TagMatchAt(text, tag, i) ==
  IF ~ OpenAt(text, i) \/ TagStarts(text, tag, i) = {} THEN << >>
  ELSE LET S == TagStarts(text, tag, i)
           a == CHOOSE x \in S : \A y \in S : y <= x
           b == CHOOSE y \in (a + Len(tag))..Len(text) :
                   AllSpace(text, a + Len(tag), y) /\ CloseAt(text, y)
       IN <<i - 1, b + 1>>

\* regex.search(full_text) for regex = \{\{\s*re.escape(tag)\s*\}\}:
\* the leftmost match as <<start, end>>, or << >> when there is none
search(text, tag) ==
  LET I == { i \in 1..Len(text) : TagMatchAt(text, tag, i) # << >> }
  IN IF I = {} THEN << >>
     ELSE TagMatchAt(text, tag, CHOOSE i \in I : \A j \in I : i <= j)

\* the match of \{\{\s*(.*?)\s*\}\} that begins at 1-based position i, as
\* <<s, e, j>>: the group is text[s..e-1] and "}}" stands at j.  The first
\* \s* is greedy, the group the shortest that lets the rest match.
GroupMatchAt(text, i) ==
  IF ~ OpenAt(text, i) THEN << >>
  ELSE LET s == CHOOSE x \in (i + 2)..(Len(text) + 1) :
                  /\ AllSpace(text, i + 2, x)
                  /\ (x > Len(text) \/ ~ IsSpace(text[x]))
           E == { e \in s..Len(text) :
                    /\ \A k \in s..(e - 1) : IsDot(text[k])
                    /\ \E j \in e..Len(text) :
                          AllSpace(text, e, j) /\ CloseAt(text, j) }
       IN IF E = {} THEN << >>
          ELSE LET e == CHOOSE x \in E : \A y \in E : x <= y
                   j == CHOOSE y \in e..Len(text) :
                           AllSpace(text, e, y) /\ CloseAt(text, y)
               IN <<s, e, j>>

\* pattern.findall(text) from 1-based position i on: the groups of the
\* non-overlapping matches, left to right
RECURSIVE FindAllFrom(_, _)
FindAllFrom(text, i) ==
  IF i > Len(text) THEN << >>
  ELSE LET m == GroupMatchAt(text, i)
       IN IF m = << >> THEN FindAllFrom(text, i + 1)
          ELSE <<SubSeq(text, m[1], m[2] - 1)>> \o FindAllFrom(text, m[3] + 2)

findall(text) == FindAllFrom(text, 1)

\* check_text(text): the tags it adds to the set
check_text(text) == { normalize(g) : g \in Range(findall(text)) }

(***************************************************************************)
(* Documents.  A document is a record                                      *)
(*    paragraphs  every paragraph of the document, by paragraph number;    *)
(*                a paragraph is the sequence of its runs, a run a record  *)
(*                [text, bold, italic, underline, name, size]              *)
(*    containers  every container (the body, a cell, a header, a footer),  *)
(*                by container number: [paragraphs |-> paragraph numbers,  *)
(*                tables |-> tables]; a table is the sequence of its rows, *)
(*                a row the sequence row.cells of container numbers.  A    *)
(*                merged cell stands once per grid column it spans in      *)
(*                row.cells (python-docx repeats the _Cell)                *)
(*    sections    [header |-> container, footer |-> container] per         *)
(*                section; a header linked to the previous section is the  *)
(*                previous section's container                             *)
(* The body is container 1.                                                *)
(***************************************************************************)
Body == 1

\* run.text of every run of a list of runs
RunTexts(rs) == [i \in 1..Len(rs) |-> rs[i].text]

\* p.text
ParagraphText(doc, p) == Join(RunTexts(doc.paragraphs[p]))

\* cell.text: the texts of the cell's own paragraphs joined by line feeds
CellText(doc, c) ==
  JoinLines([k \in 1..Len(doc.containers[c].paragraphs) |->
               ParagraphText(doc, doc.containers[c].paragraphs[k])])

\* the cells of the rows of a list of tables, in order (with repeats)
RECURSIVE RowsCells(_)
RowsCells(rows) ==
  IF rows = << >> THEN << >> ELSE Head(rows) \o RowsCells(Tail(rows))

RECURSIVE TablesCells(_)
TablesCells(tables) ==
  IF tables = << >> THEN << >>
  ELSE RowsCells(Head(tables)) \o TablesCells(Tail(tables))

\* the texts check_text is called on for one block container: the text of
\* each of its paragraphs, then cell.text of each cell of its own tables
PartTexts(doc, c) ==
  LET cells == TablesCells(doc.containers[c].tables)
  IN [k \in 1..Len(doc.containers[c].paragraphs) |->
        ParagraphText(doc, doc.containers[c].paragraphs[k])]
     \o [k \in 1..Len(cells) |-> CellText(doc, cells[k])]

\* the containers extract_tags_from_docx and replace_placeholders_in_doc
\* start from: the body, then the header and the footer of every section
RECURSIVE SectionParts(_)
SectionParts(sections) ==
  IF sections = << >> THEN << >>
  ELSE <<Head(sections).header, Head(sections).footer>>
       \o SectionParts(Tail(sections))

TopContainers(doc) == <<Body>> \o SectionParts(doc.sections)

\* extract_tags_from_docx(docx_file): the set of tags
extract_tags_from_docx(doc) ==
  UNION { check_text(t) :
            t \in UNION { Range(PartTexts(doc, c)) :
                            c \in Range(TopContainers(doc)) } }

\* process(container): the paragraphs replace_in_paragraph is called on, in
\* order; the cells of the tables are processed recursively
RECURSIVE process(_, _)
RECURSIVE ProcessCells(_, _)
ProcessCells(doc, cells) ==
  IF cells = << >> THEN << >>
  ELSE process(doc, Head(cells)) \o ProcessCells(doc, Tail(cells))

process(doc, c) ==
  doc.containers[c].paragraphs
  \o ProcessCells(doc, TablesCells(doc.containers[c].tables))

\* the calls of replace_in_paragraph made by replace_placeholders_in_doc
RECURSIVE ProcessAll(_, _)
ProcessAll(doc, cs) ==
  IF cs = << >> THEN << >>
  ELSE process(doc, Head(cs)) \o ProcessAll(doc, Tail(cs))

Visits(doc) == ProcessAll(doc, TopContainers(doc))

(***************************************************************************)
(* Inputs: template documents, datasets and mappings.                      *)
(***************************************************************************)
\* the formatting of the k-th run of a template paragraph: every run of a
\* paragraph is formatted differently from its neighbours
Fmt(k) ==
  [bold      |-> IF k % 2 = 1 THEN "True" ELSE "None",
   italic    |-> IF k % 3 = 0 THEN "True" ELSE "False",
   underline |-> IF k % 2 = 0 THEN "True" ELSE "None",
   name      |-> IF k = 1 THEN "None" ELSE IF k % 2 = 0 THEN "Arial" ELSE "Times",
   size      |-> IF k = 1 THEN "Pt10" ELSE IF k = 2 THEN "Pt12"
                 ELSE IF k = 3 THEN "None" ELSE "Pt14"]

\* a run of the template
Run(text, k) ==
  [text |-> text, bold |-> Fmt(k).bold, italic |-> Fmt(k).italic,
   underline |-> Fmt(k).underline, name |-> Fmt(k).name, size |-> Fmt(k).size]

\* the paragraph whose runs hold the given texts
MkParagraph(parts) == [k \in 1..Len(parts) |-> Run(parts[k], k)]

\* every way of splitting a text into k runs, empty runs included
Splits(text, k) ==
  IF k = 0 THEN (IF text = << >> THEN { << >> } ELSE {})
  ELSE LET Cuts == { c \in [1..(k - 1) -> 0..Len(text)] :
                       \A i \in 1..(k - 2) : c[i] <= c[i + 1] }
           cut(c, i) == IF i = 0 THEN 0 ELSE IF i = k THEN Len(text) ELSE c[i]
       IN { [i \in 1..k |-> SubSeq(text, cut(c, i - 1) + 1, cut(c, i))] :
              c \in Cuts }

TxtName    == <<"b", "{", "{", "N", "a", "m", "e", "}", "}", "!">>
TxtTwice   == <<"{", "{", "A", "}", "}", "x", "{", "{", "A", "}", "}">>
TxtTwoTags == <<"{", "{", "A", "}", "}", "{", "{", "B", "}", "}">>
TxtSpaced  == <<"{", "{", " ", "A", "NBSP", "}", "}", "!">>
TxtZwsp    == <<"{", "{", "A", "ZWSP", "}", "}">>
TxtNbsp    == <<"{", "{", "a", "NBSP", "b", "}", "}">>
TxtWide    == <<"{", "{", "FW_A", "}", "}">>
TxtPlain   == <<"x">>
TxtA       == <<"{", "{", "A", "}", "}">>
TxtB       == <<"{", "{", "B", "}", "}">>
TxtLowerA  == <<"{", "{", "a", "}", "}">>
TxtNameA   == <<"{", "{", "N", "a", "m", "e", "}", "}", " ", "{", "{", "A", "}", "}">>
TxtNameTag == <<"{", "{", "N", "a", "m", "e", "}", "}">>

\* the visible texts of the paragraphs that are split in every way
Texts ==
  { TxtName, TxtTwice, TxtTwoTags, TxtSpaced, TxtZwsp, TxtNbsp, TxtWide,
    TxtPlain, << >> }

\* the paragraphs: every text, split into at most MaxRuns runs
Paragraphs ==
  { MkParagraph(parts) :
      parts \in UNION { Splits(t, k) : t \in Texts, k \in 0..MaxRuns } }

\* a container without tables
Block(ps) == [paragraphs |-> ps, tables |-> << >>]

\* a document whose body is one paragraph; its only section has a header and
\* a footer of one empty paragraph each
OneParagraphDoc(par) ==
  [paragraphs |-> <<par, << >>, << >>>>,
   containers |-> <<Block(<<1>>), Block(<<2>>), Block(<<3>>)>>,
   sections   |-> <<[header |-> 2, footer |-> 3]>>]

\* a document with a table of one row: a cell merged over two grid columns
\* (container 2, paragraph {{A}}) and a cell (container 3, paragraph {{B}})
\* that holds a nested table whose cell (container 4) holds {{a}}
TableDoc ==
  [paragraphs |-> <<MkParagraph(<<TxtPlain>>), MkParagraph(<<TxtA>>),
                    MkParagraph(<<TxtB>>), MkParagraph(<<TxtLowerA>>),
                    << >>, << >>>>,
   containers |-> <<[paragraphs |-> <<1>>, tables |-> << << <<2, 2, 3>> >> >>],
                    Block(<<2>>),
                    [paragraphs |-> <<3>>, tables |-> << << <<4>> >> >>],
                    Block(<<4>>), Block(<<5>>), Block(<<6>>)>>,
   sections   |-> <<[header |-> 5, footer |-> 6]>>]

\* a document of two sections: the header of the second is linked to the
\* previous section, so both sections have container 2 as header
SectionsDoc ==
  [paragraphs |-> <<MkParagraph(<<TxtPlain>>), MkParagraph(<<TxtA>>),
                    MkParagraph(<<TxtB>>), << >>>>,
   containers |-> <<Block(<<1>>), Block(<<2>>), Block(<<3>>), Block(<<4>>)>>,
   sections   |-> <<[header |-> 2, footer |-> 3], [header |-> 2, footer |-> 4]>>]

\* {{Name}} and {{A}} in the body, {{Name}} again in the footer
LetterDoc ==
  [paragraphs |-> <<MkParagraph(<<TxtNameA>>), << >>, MkParagraph(<<TxtNameTag>>)>>,
   containers |-> <<Block(<<1>>), Block(<<2>>), Block(<<3>>)>>,
   sections   |-> <<[header |-> 2, footer |-> 3]>>]

Documents == { TableDoc, SectionsDoc, LetterDoc }

\* the rows of a dataset with the columns c1 and c2; the values of RowTricky
\* are themselves placeholders
RowAlice  == [c1 |-> <<"v">>, c2 |-> <<"p">>]
RowBob    == [c1 |-> <<"w">>, c2 |-> <<"q">>]
RowTricky == [c1 |-> TxtB, c2 |-> TxtA]
Rows      == { RowAlice, RowBob, RowTricky }

\* the datasets of n rows
Datasets(n) == [1..n -> Rows]

LEAVE_UNCHANGED == "(laisser inchangee)"

\* line 179: what the selectbox of a tag offers: the sentinel and the
\* columns of the dataset
cols == { LEAVE_UNCHANGED, "c1", "c2" }

\* what a mapping entry may hold besides: nothing, or a column that is no
\* longer in the dataset when the documents are generated
MapChoices == cols \cup { "", "gone" }

\* lines 182-189: the mappings main() builds for a template: one entry per
\* extracted tag, in the order of sorted(tags); an entry is <<tag, col>>
\* with col among the given choices
Mappings(doc, choices) ==
  LET st == sorted(extract_tags_from_docx(doc))
  IN { [k \in 1..Len(st) |-> <<st[k], f[k]>>] : f \in [1..Len(st) -> choices] }

\* the name of the uploaded template, split as main() splits it
\* ("3.2_Contrat.docx": major "3", minor 2, rest "Contrat")
WordFileName == [major |-> "3", minor |-> 2, rest |-> "Contrat"]

\* no document instance
NoDocument == [paragraphs |-> << >>, containers |-> << >>, sections |-> << >>]

(***************************************************************************)
(* State.                                                                  *)
(***************************************************************************)
VARIABLES
  word_file,      \* the uploaded template (its content)
  df,             \* the dataset: the sequence of its rows
  mapping,        \* the mapping: the sequence of its items <<tag, col>>
  pc,             \* where main() stands
  zf,             \* the archive: the sequence of its entries
  idx,            \* the index of the row being rendered (0-based)
  template,       \* the document instance of the row being rendered
  todo,           \* the paragraphs process() has still to visit
  paragraph,      \* replace_in_paragraph: the paragraph (its number)
  runs,           \* ... the list paragraph.runs taken at entry (run numbers)
  text_runs,      \* ... the texts of those runs
  full_text,      \* ... their concatenation
  item,           \* ... the position of the for loop in mapping.items()
  value,          \* ... the text to insert
  match,          \* ... the last result of regex.search: <<start, end>>
  run_positions,  \* ... the runs that overlap the match
  first_run       \* ... the first of them (a run number)

vars ==
  <<word_file, df, mapping, pc, zf, idx, template, todo, paragraph, runs,
    text_runs, full_text, item, value, match, run_positions, first_run>>

locals ==
  <<paragraph, runs, text_runs, full_text, item, value, match, run_positions,
    first_run>>

inputs == <<word_file, df, mapping>>

\* the row being rendered
row == df[idx + 1]

\* the current item of mapping.items()
tag == mapping[item][1]
col == mapping[item][2]

(***************************************************************************)
(* Initial states: both files are uploaded and the mapping is saved.       *)
(***************************************************************************)
InitRest ==
  /\ pc = "ready"
  /\ zf = << >>
  /\ idx = 0
  /\ template = NoDocument
  /\ todo = << >>
  /\ paragraph = 0
  /\ runs = << >>
  /\ text_runs = << >>
  /\ full_text = << >>
  /\ item = 0
  /\ value = << >>
  /\ match = << >>
  /\ run_positions = << >>
  /\ first_run = 0

\* a template of one body paragraph, split in every way, and one row
InitParagraph ==
  /\ word_file \in { OneParagraphDoc(par) : par \in Paragraphs }
  /\ df \in { <<RowAlice>>, <<RowTricky>> }
  /\ mapping \in Mappings(word_file, cols)
  /\ InitRest

\* a template with tables, sections, headers and footers, and up to MaxRows rows
InitDocument ==
  /\ word_file \in Documents
  /\ df \in UNION { Datasets(n) : n \in 1..MaxRows }
  /\ mapping \in Mappings(word_file, MapChoices)
  /\ InitRest

Init == InitParagraph \/ InitDocument

(***************************************************************************)
(* replace_placeholders_in_doc, replace_in_paragraph.                      *)
(***************************************************************************)
\* Document(word_file): a new document instance parsed from the template
Document(file) == file

\* (mutant) the instance of the previous row is used again
ParseTemplateReused == IF idx = 0 THEN Document(word_file) ELSE template

\* the instance a row is rendered on
ParseTemplate == Document(word_file)

\* the condition of line 59: the item is skipped
Skipped(c, r) == c = "" \/ c = LEAVE_UNCHANGED \/ c \notin DOMAIN r

\* str(row[col])
str(v) == v

\* the offset of text_runs[i] in the concatenation
RECURSIVE PosOf(_, _)
PosOf(texts, i) == IF i = 1 THEN 0 ELSE PosOf(texts, i - 1) + Len(texts[i - 1])

\* (mutant) a run that ends where the match begins counts as overlapping
OverlapsTouching(pos, txt, start, end) == pos + Len(txt) >= start /\ pos < end

\* the condition of line 75
Overlaps(pos, txt, start, end) == pos + Len(txt) > start /\ pos < end

\* lines 72-77: the runs that overlap [start, end), in order
RunPositions(texts, start, end) ==
  LET RECURSIVE From(_)
      From(i) ==
        IF i > Len(texts) THEN << >>
        ELSE (IF Overlaps(PosOf(texts, i), texts[i], start, end)
              THEN <<i>> ELSE << >>) \o From(i + 1)
  IN From(1)

\* line 82: the run whose formatting the new run gets
FirstRun(rs, positions) == rs[positions[1]]

\* lines 84-85: the text of the runs concerned is emptied
Emptied(par, rs, positions) ==
  [k \in 1..Len(par) |->
     IF \E n \in 1..Len(positions) : rs[positions[n]] = k
     THEN [par[k] EXCEPT !.text = << >>] ELSE par[k]]

\* lines 87-92: paragraph.add_run(value) with the formatting of the donor
NewRun(v, donor) ==
  [text |-> v, bold |-> donor.bold, italic |-> donor.italic,
   underline |-> donor.underline, name |-> donor.name, size |-> donor.size]

\* (mutant) the runs of the paragraph are read again, the added run included
TextsOfParagraph(par, rs) == RunTexts(par)

\* lines 95-96: the texts of the runs of the list taken at entry
TextsOf(par, rs) == [k \in 1..Len(rs) |-> par[rs[k]].text]

\* lines 106-109: process is called on the template and on the header and
\* the footer of every section
StartRow ==
  /\ pc = "loop"
  /\ idx < Len(df)
  /\ template' = ParseTemplate
  /\ todo' = Visits(template')
  /\ pc' = "process"
  /\ UNCHANGED <<inputs, zf, idx, locals>>

\* lines 50-52: a paragraph without runs
EnterEmptyParagraph ==
  /\ pc = "process"
  /\ todo # << >>
  /\ template.paragraphs[Head(todo)] = << >>
  /\ paragraph' = Head(todo)
  /\ todo' = Tail(todo)
  /\ runs' = << >>
  /\ UNCHANGED <<inputs, pc, zf, idx, template, text_runs, full_text, item,
                 value, match, run_positions, first_run>>

\* lines 50-56
EnterParagraph ==
  /\ pc = "process"
  /\ todo # << >>
  /\ template.paragraphs[Head(todo)] # << >>
  /\ paragraph' = Head(todo)
  /\ todo' = Tail(todo)
  /\ runs' = [k \in 1..Len(template.paragraphs[Head(todo)]) |-> k]
  /\ text_runs' = RunTexts(template.paragraphs[Head(todo)])
  /\ full_text' = Join(text_runs')
  /\ item' = 1
  /\ pc' = "for"
  /\ UNCHANGED <<inputs, zf, idx, template, value, match, run_positions,
                 first_run>>

\* lines 58-60: the item is skipped
SkipItem ==
  /\ pc = "for"
  /\ item <= Len(mapping)
  /\ Skipped(col, row)
  /\ item' = item + 1
  /\ UNCHANGED <<inputs, pc, zf, idx, template, todo, paragraph, runs,
                 text_runs, full_text, value, match, run_positions, first_run>>

\* lines 61-62
BeginItem ==
  /\ pc = "for"
  /\ item <= Len(mapping)
  /\ ~ Skipped(col, row)
  /\ value' = str(row[col])
  /\ pc' = "while"
  /\ UNCHANGED <<inputs, zf, idx, template, todo, paragraph, runs, text_runs,
                 full_text, item, match, run_positions, first_run>>

\* lines 66-68 and 79-80: no match, or no run concerned: the loop ends
EndWhile ==
  /\ pc = "while"
  /\ match' = search(full_text, tag)
  /\ \/ /\ match' = << >>
        /\ UNCHANGED run_positions
     \/ /\ match' # << >>
        /\ run_positions' = RunPositions(text_runs, match'[1], match'[2])
        /\ run_positions' = << >>
  /\ item' = item + 1
  /\ pc' = "for"
  /\ UNCHANGED <<inputs, zf, idx, template, todo, paragraph, runs, text_runs,
                 full_text, value, first_run>>

\* lines 66-82: a match, and the runs concerned
Search ==
  /\ pc = "while"
  /\ match' = search(full_text, tag)
  /\ match' # << >>
  /\ run_positions' = RunPositions(text_runs, match'[1], match'[2])
  /\ run_positions' # << >>
  /\ first_run' = FirstRun(runs, run_positions')
  /\ pc' = "found"
  /\ UNCHANGED <<inputs, zf, idx, template, todo, paragraph, runs, text_runs,
                 full_text, item, value>>

\* lines 84-96: the runs concerned are emptied, the value is added in a new
\* run at the end of the paragraph, the texts are taken again
Substitute ==
  /\ pc = "found"
  /\ LET par == template.paragraphs[paragraph]
         new == Append(Emptied(par, runs, run_positions),
                       NewRun(value, par[first_run]))
     IN /\ template' = [template EXCEPT !.paragraphs[paragraph] = new]
        /\ text_runs' = TextsOf(new, runs)
  /\ full_text' = Join(text_runs')
  /\ pc' = "while"
  /\ UNCHANGED <<inputs, zf, idx, todo, paragraph, runs, item, value, match,
                 run_positions, first_run>>

\* the for loop of line 58 is over: replace_in_paragraph returns
LeaveParagraph ==
  /\ pc = "for"
  /\ item > Len(mapping)
  /\ pc' = "process"
  /\ UNCHANGED <<inputs, zf, idx, template, todo, locals>>

(***************************************************************************)
(* main(): the generation loop.                                            *)
(***************************************************************************)
\* lines 224-226
Person(m, r) ==
  LET K == { k \in 1..Len(m) :
               Lower(m[k][1]) = <<"n", "a", "m", "e">> /\ m[k][2] \in DOMAIN r }
  IN IF K = {} THEN <<"i", "n", "c", "o", "n", "n", "u">>
     ELSE Strip(str(r[m[(CHOOSE k \in K : \A j \in K : k <= j)][2]]))

\* lines 222-227: the name of the entry of row i
FileName(i, m, r) ==
  [major |-> WordFileName.major, seq |-> WordFileName.minor + i + 1,
   rest |-> WordFileName.rest, person |-> Person(m, r)]

\* (mutant) an entry whose content is already in the archive is not added
writestrOnce(archive, fname, data) ==
  IF \E k \in 1..Len(archive) : archive[k].data = data THEN archive
  ELSE Append(archive, [name |-> fname, data |-> data])

\* line 230: zf.writestr(fname, data) adds an entry, whatever its name
writestr(archive, fname, data) == Append(archive, [name |-> fname, data |-> data])

\* lines 197-218: the button is pressed, the archive is opened
Generate ==
  /\ pc = "ready"
  /\ zf' = << >>
  /\ idx' = 0
  /\ pc' = "loop"
  /\ UNCHANGED <<inputs, template, todo, locals>>

\* lines 222-230: replace_placeholders_in_doc has returned
SaveRow ==
  /\ pc = "process"
  /\ todo = << >>
  /\ zf' = writestr(zf, FileName(idx, mapping, row), template)
  /\ idx' = idx + 1
  /\ pc' = "loop"
  /\ UNCHANGED <<inputs, template, todo, locals>>

\* lines 231-235: the rows are exhausted, the archive is stored
Finish ==
  /\ pc = "loop"
  /\ idx = Len(df)
  /\ pc' = "done"
  /\ UNCHANGED <<inputs, zf, idx, template, todo, locals>>

Next ==
  \/ Generate
  \/ StartRow
  \/ EnterEmptyParagraph
  \/ EnterParagraph
  \/ SkipItem
  \/ BeginItem
  \/ Search
  \/ Substitute
  \/ EndWhile
  \/ LeaveParagraph
  \/ SaveRow
  \/ Finish

Spec == Init /\ [][Next]_vars

(***************************************************************************)
(* Notions the properties are stated with.                                 *)
(***************************************************************************)
\* item k of the mapping is substituted for row r (it is not skipped)
Active(m, k, r) == ~ Skipped(m[k][2], r)

\* the tags substituted for row r
ActiveTags(m, r) == { m[k][1] : k \in { j \in 1..Len(m) : Active(m, j, r) } }

\* the text with every placeholder of an active tag replaced, where it
\* stands, by the value of its column, from 1-based position i on; the
\* values put in are not searched
RECURSIVE SubstitutedFrom(_, _, _, _)
SubstitutedFrom(text, m, r, i) ==
  IF i > Len(text) THEN << >>
  ELSE LET K == { k \in 1..Len(m) :
                    Active(m, k, r) /\ TagMatchAt(text, m[k][1], i) # << >> }
       IN IF K = {} THEN <<text[i]>> \o SubstitutedFrom(text, m, r, i + 1)
          ELSE LET k == CHOOSE j \in K : \A l \in K : j <= l
               IN r[m[k][2]]
                  \o SubstitutedFrom(text, m, r, TagMatchAt(text, m[k][1], i)[2] + 1)

\* the number of placeholders of a tag in a text
RECURSIVE OccurrencesFrom(_, _, _)
OccurrencesFrom(text, t, i) ==
  IF i > Len(text) THEN 0
  ELSE IF TagMatchAt(text, t, i) = << >> THEN OccurrencesFrom(text, t, i + 1)
  ELSE 1 + OccurrencesFrom(text, t, TagMatchAt(text, t, i)[2] + 1)

\* the paragraph numbers of the template
ParagraphNumbers == 1..Len(word_file.paragraphs)

\* the runs of paragraph p of a rendered document that the template does not
\* have: the runs added by the substitution
AddedRuns(doc, p) ==
  { doc.paragraphs[p][n] :
      n \in (Len(word_file.paragraphs[p]) + 1)..Len(doc.paragraphs[p]) }

\* every added run of a rendered document holds a value of row r, or nothing
AddedFromRow(doc, r) ==
  \A p \in ParagraphNumbers :
    \A a \in AddedRuns(doc, p) : a.text \in { r[c] : c \in DOMAIN r } \cup { << >> }

\* run n of the list text_runs holds the character at an offset
HoldsOffset(texts, n, offset) ==
  PosOf(texts, n) <= offset /\ offset < PosOf(texts, n) + Len(texts[n])

\* a substitution has just been made in the current paragraph
JustSubstituted == pc = "while" /\ match # << >>

(***************************************************************************)
(* C1.  In every generated document, a paragraph that holds a placeholder  *)
(* of a substituted tag reads as the template's paragraph with each such   *)
(* placeholder replaced, at its own position, by the value of the row; the *)
(* text before and after is kept (b{{Name}}! gives bv! for the value v).   *)
(***************************************************************************)
C1_ReplacedInPlace ==
  \A k \in 1..Len(zf) : \A p \in ParagraphNumbers :
    (\E t \in ActiveTags(mapping, df[k]) :
        search(ParagraphText(word_file, p), t) # << >>)
    => ParagraphText(zf[k].data, p)
         = SubstitutedFrom(ParagraphText(word_file, p), mapping, df[k], 1)

(***************************************************************************)
(* C2.  In every generated document, every placeholder of a tag that is    *)
(* not substituted (empty entry, sentinel, column absent from the row) is  *)
(* still there: no paragraph has fewer of them than in the template.       *)
(***************************************************************************)
C2_UnmappedKept ==
  \A k \in 1..Len(zf) : \A p \in ParagraphNumbers : \A j \in 1..Len(mapping) :
    ~ Active(mapping, j, df[k])
    => OccurrencesFrom(ParagraphText(zf[k].data, p), mapping[j][1], 1)
         >= OccurrencesFrom(ParagraphText(word_file, p), mapping[j][1], 1)

(***************************************************************************)
(* C3.  Extracting the tags of a generated document returns no tag that    *)
(* was substituted for its row.                                            *)
(***************************************************************************)
C3_NoLeak ==
  \A k \in 1..Len(zf) :
    extract_tags_from_docx(zf[k].data) \cap ActiveTags(mapping, df[k]) = {}

(***************************************************************************)
(* C4.  When replace_in_paragraph enters a paragraph, every tag the        *)
(* extraction finds in the text of the paragraph is found there by the     *)
(* search of the substitution.                                             *)
(***************************************************************************)
C4_ExtractedIsFound ==
  (pc = "for" /\ item = 1)
  => \A t \in check_text(full_text) : search(full_text, t) # << >>

(***************************************************************************)
(* C5.  Every row is rendered on an instance that equals the uploaded      *)
(* template when its substitution starts; a generated document holds only  *)
(* values of its own row, and equal rows give equal documents whatever was *)
(* rendered before them.                                                   *)
(***************************************************************************)
C5_RowIsolation ==
  /\ (pc = "process" /\ todo = Visits(template)) => template = word_file
  /\ \A k \in 1..Len(zf) : AddedFromRow(zf[k].data, df[k])
  /\ \A j, k \in 1..Len(zf) : df[j] = df[k] => zf[j].data = zf[k].data

\* two different rows have been rendered, each document holds a value
C5_Witness ==
  /\ Len(zf) = 2
  /\ df[1] # df[2]
  /\ zf[1].data # zf[2].data
  /\ \A k \in 1..2 : \E p \in ParagraphNumbers :
        \E a \in AddedRuns(zf[k].data, p) : a.text # << >>

(***************************************************************************)
(* C6.  The archive holds one entry per rendered row, in the order of the  *)
(* dataset: entry k has the name and the values of row k, and when the     *)
(* loop is over there are as many entries as rows.                         *)
(***************************************************************************)
C6_ArchiveOrder ==
  /\ Len(zf) = idx
  /\ pc = "done" => Len(zf) = Len(df)
  /\ \A k \in 1..Len(zf) :
       /\ zf[k].name = FileName(k - 1, mapping, df[k])
       /\ AddedFromRow(zf[k].data, df[k])

\* two equal rows, hence two entries with the same person and content
C6_Witness ==
  /\ pc = "done"
  /\ Len(zf) = 2
  /\ df[1] = df[2]
  /\ zf[1].data = zf[2].data
  /\ zf[1].name.person = zf[2].name.person

(***************************************************************************)
(* C7.  A match of the search never covers a run that the substitution     *)
(* added: the values put in are not searched again.                        *)
(***************************************************************************)
C7_ValueNotSearched ==
  pc = "found"
  => \A n \in 1..Len(run_positions) :
        runs[run_positions[n]] <= Len(word_file.paragraphs[paragraph])

(***************************************************************************)
(* C8.  The extraction returns the tags of every paragraph that the        *)
(* substitution visits: the tags of the template's text of a paragraph     *)
(* that replace_in_paragraph has entered are among the extracted tags.     *)
(***************************************************************************)
C8_ExtractVisitsAll ==
  paragraph # 0
  => check_text(ParagraphText(word_file, paragraph))
       \subseteq extract_tags_from_docx(word_file)

(***************************************************************************)
(* C9.  Whenever the search finds a match, the list of the runs that       *)
(* overlap it is not empty and begins with the run that holds the          *)
(* character at offset start; that run is the donor, the added run holds   *)
(* the value with the five formatting attributes of the donor, and the     *)
(* overlapping runs are emptied and stay in the paragraph.                 *)
(***************************************************************************)
C9_DonorIsFirstRun ==
  /\ pc = "while" =>
       LET m == search(full_text, tag)
       IN m # << >> =>
            LET rp == RunPositions(text_runs, m[1], m[2])
            IN rp # << >> /\ HoldsOffset(text_runs, rp[1], m[1])
  /\ pc = "found" =>
       /\ HoldsOffset(text_runs, run_positions[1], match[1])
       /\ first_run = runs[run_positions[1]]
  /\ JustSubstituted =>
       LET par   == template.paragraphs[paragraph]
           added == par[Len(par)]
           donor == par[first_run]
       IN /\ Len(par) > Len(runs)
          /\ added.text = value
          /\ added.bold = donor.bold
          /\ added.italic = donor.italic
          /\ added.underline = donor.underline
          /\ added.name = donor.name
          /\ added.size = donor.size
          /\ \A n \in 1..Len(run_positions) :
                par[runs[run_positions[n]]].text = << >>

\* a second substitution in a paragraph, over two runs or more
C9_Witness ==
  /\ JustSubstituted
  /\ Len(run_positions) >= 2
  /\ Len(template.paragraphs[paragraph]) >= Len(runs) + 2

(***************************************************************************)
(* C10.  Every iteration of the while loop that finds a match empties a    *)
(* run of the searched list that was not empty, and the searched text      *)
(* becomes strictly shorter: the loop cannot go on for ever.               *)
(***************************************************************************)
C10_SearchedTextShrinks ==
  [][pc = "found" =>
       /\ \E n \in 1..Len(run_positions) :
             /\ text_runs[run_positions[n]] # << >>
             /\ text_runs'[run_positions[n]] = << >>
       /\ Len(text_runs') = Len(text_runs)
       /\ Len(full_text') < Len(full_text)]_vars

\* a value that holds the placeholder it replaces has been put in
C10_Witness ==
  /\ JustSubstituted
  /\ search(value, tag) # << >>

=============================================================================
